---- MODULE Spec2Model ----
(***************************************************************************)
(* Model of the frame samplers of frame_sampling/strategy.py.              *)
(*                                                                         *)
(* A sampler object (its class and its sample_rate) is built once.  Its    *)
(* sample(video_dataset, output_dir, exist_ok) method walks the dataset,   *)
(* creates one sub directory per video and runs _sample_single_video on    *)
(* the video.  One action of the model is one step of sample()'s for loop  *)
(* or one iteration of the per-frame loop of _sample_single_video.         *)
(*                                                                         *)
(* A video is what its decoder delivers: a finite sequence of frames, each *)
(* with a timestamp (frame.time, whole seconds here, non-decreasing) and   *)
(* the value criteria_func returns on its image.  What a call raises is    *)
(* part of the frame too ("fault"): the decoder raising instead of         *)
(* delivering it, the criterion raising on it, the persist step raising on *)
(* it.  A fault stands for any exception other than StopIteration, which   *)
(* is the iterator protocol's end-of-stream signal.                        *)
(***************************************************************************)
EXTENDS Integers, Sequences, FiniteSets, TLC

\* ------------------------------------------------------------------ bounds
\* longest frame stream of a video in Spec
MaxFrames == 4
\* longest frame stream of a video in SpecRun
RunFrames == 2
\* number of videos of the dataset in SpecRun
NumVideos == 2
\* largest sample_rate a sampler is built with
MaxRate == 2
\* largest gap, in seconds, between the timestamps of successive frames
MaxStep == 1
\* largest number of videos under data_dir in SpecBuild
BuildVideos == 1
\* how far below zero the sample_rate handed to a constructor goes in SpecBuild
NegRates == 1

\* --------------------------------------------------------------- constants
\* VideoClipSampler.min_clip_duration
min_clip_duration == 1
\* the value of start_time while no run is open (Python's None)
None == -1

IntervalKinds == {"MinimalSampler", "CustomCriteriaSampler"}
Kinds == IntervalKinds \cup {"VideoClipSampler"}

VARIABLES
    kind,        \* the sampler's class
    sample_rate, \* BaseSampler.sample_rate
    index,       \* Dataset.index: the ordered list of video paths
    dirs,        \* names of the sub directories that exist under output_dir
    pc,          \* where the caller / sample() stands
    exist_ok,    \* sample()'s exist_ok argument
    video_idx,   \* sample()'s video_idx
    err,         \* the exception that left sample(), "none" if none
    prev,        \* how the call of sample() before this one ended
    opened,      \* videos handed to _sample_single_video by this call
    stream,      \* the pulls of next(video_stream) made on the current video
    start_time,  \* VideoClipSampler._sample_single_video's start_time
    saved,       \* frame indices handed to _save_frame, in order
    clips,       \* <<start_time, end_time>> handed to _save_video_clip
    handled,     \* calls of _handle_exceptions: <<video path, pull number>>
    root_exists, \* whether the dataset's data_dir exists
    result,      \* what the last call of a Dataset accessor returned
    outcome,     \* per video: how _sample_single_video last ended on it
    lost         \* the decoder raised, and the video had frames after that one

vars == <<kind, sample_rate, index, dirs, pc, exist_ok, video_idx, err, prev,
          opened, stream, start_time, saved, clips, handled, root_exists,
          result, outcome, lost>>

sampler == <<kind, sample_rate, index, root_exists, result>>

\* ------------------------------------------------------------ pure helpers
Path(i) == <<"video", i>>

Last(s) == s[Len(s)]

\* default_criteria without its `not`
default_criteria_negated(r, idx) == (idx % r) # 0

\* idx % self.sample_rate raises ZeroDivisionError
RateRaises(k, r) == k \in IntervalKinds /\ r = 0

\* MinimalSampler.default_criteria: not idx % self.sample_rate.  Python's
\* remainder by a negative rate is zero exactly when the rate divides idx; by
\* zero it has no value (RateRaises).
default_criteria(r, idx) ==
    r # 0 /\ (idx % (IF r > 0 THEN r ELSE 0 - r)) = 0

\* criteria_func(frame.to_image()): the caller's predicate on the frame
criteria_func(frame) == frame.pred

\* _sample_criteria with VideoClipSampler's inheriting CustomCriteriaSampler's
SampleCriteria_strided(k, r, idx, frame) ==
    CASE k = "MinimalSampler" -> (idx % r) = 0
      [] k = "CustomCriteriaSampler" -> (idx % r) = 0 /\ criteria_func(frame)
      [] k = "VideoClipSampler" -> (idx % r) = 0 /\ criteria_func(frame)

\* _sample_criteria with CustomCriteriaSampler's `and` written `or`
SampleCriteria_or(k, r, idx, frame) ==
    CASE k = "MinimalSampler" -> default_criteria(r, idx)
      [] k = "CustomCriteriaSampler" ->
            default_criteria(r, idx) \/ criteria_func(frame)
      [] k = "VideoClipSampler" -> criteria_func(frame)

\* _sample_criteria of the three classes
SampleCriteria(k, r, idx, frame) ==
    CASE k = "MinimalSampler" -> default_criteria(r, idx)
      [] k = "CustomCriteriaSampler" ->
            default_criteria(r, idx) /\ criteria_func(frame)
      [] k = "VideoClipSampler" -> criteria_func(frame)

\* whether _sample_criteria calls criteria_func on the frame at idx: Python's
\* `and` does not evaluate its right operand when the left one is false
CallsCriteriaFunc(k, r, idx) ==
    CASE k = "MinimalSampler" -> FALSE
      [] k = "CustomCriteriaSampler" -> default_criteria(r, idx)
      [] k = "VideoClipSampler" -> TRUE

\* whether _sample_criteria raises on the frame
CriteriaRaises(k, r, idx, frame) ==
    \/ RateRaises(k, r)
    \/ CallsCriteriaFunc(k, r, idx) /\ frame.fault = "criteria"

\* the sub directory named one past the index
CreateSubdirPath_offbyone(idx) == idx + 1

\* MinimalSampler._create_subdir_path: output_dir / str(idx)
CreateSubdirPath(idx) == idx

\* _sample_single_video on video i ended as `how`: "completed" when it
\* returned, "failed" when an exception left it.  A video that was completed
\* once stays so.
Ended(o, i, how) ==
    [o EXCEPT ![i] = IF @ = "completed" THEN @ ELSE how]

\* ------------------------------------------------------------- the decoder
\* The frame stream is iter(enumerate(tqdm(container.decode(stream)))).
\* tqdm iterates in a generator, so an exception raised by the decoder ends
\* that generator: every later next() raises StopIteration.
Exhausted(s) == s # <<>> /\ Last(s).fault = "decode"

\* the timestamp of the last pull, 0 before the first
LastTime(s) == IF s = <<>> THEN 0 ELSE Last(s).time

\* frame.time of the next frame.  The interval samplers use it only to name
\* the image file, and their videos are timestamped 0, 1, 2, ...; for the clip
\* sampler successive timestamps are any non-decreasing sequence.
NextTimes(k, s) ==
    IF k \in IntervalKinds
    THEN {Len(s)}
    ELSE {LastTime(s) + d : d \in 0..MaxStep}

\* A fault is part of the input only where the code makes the call that
\* raises; a MinimalSampler has no criteria_func, and a predicate that raises
\* has no value.
Observable(k, r, idx, f) ==
    /\ f.fault = "criteria" => CallsCriteriaFunc(k, r, idx) /\ ~f.pred
    /\ f.fault = "save" => k \in IntervalKinds /\ SampleCriteria(k, r, idx, f)
    /\ k = "MinimalSampler" => ~f.pred

\* the frames the decoder can deliver next
Frames(k, r, s) ==
    {f \in [time : NextTimes(k, s), pred : BOOLEAN,
            fault : {"none", "criteria", "save"}] :
        Observable(k, r, Len(s), f)}

\* the pull on which the decoder raised
DecodeFailure(s) == [time |-> LastTime(s), pred |-> FALSE, fault |-> "decode"]

\* --------------------------------------------------- the interval samplers
\* MinimalSampler._handle_exceptions: report the error and return
HandleExceptions(h, path, pull) == Append(h, <<path, pull>>)

\* the handler's error leaves the loop
AfterHandler_abort == "raised"

\* where BaseSampler._sample_single_video goes after the handler returned:
\* back to the top of `while True`
AfterHandler == "frames"

\* BaseSampler._process_frame, with _save_frame: the frames handed to
\* _save_frame and whether the call raised
ProcessFrame(k, r, sv, idx, f) ==
    IF CriteriaRaises(k, r, idx, f)
    THEN [saved |-> sv, raised |-> TRUE]
    ELSE IF SampleCriteria(k, r, idx, f)
         THEN [saved |-> Append(sv, idx), raised |-> f.fault = "save"]
         ELSE [saved |-> sv, raised |-> FALSE]

\* One iteration of `while True` in BaseSampler._sample_single_video.
IntervalStep(cap) ==
    /\ pc = "frames"
    /\ kind \in IntervalKinds
    /\ \/ \* next() raises StopIteration: break, and sample() goes on
          /\ pc' = "loop"
          /\ video_idx' = video_idx + 1
          /\ outcome' = Ended(outcome, video_idx, "completed")
          /\ UNCHANGED <<stream, saved, handled, lost>>
       \/ \* next() raises another exception: the handler, then the loop
          /\ ~Exhausted(stream)
          /\ Len(stream) < cap
          /\ stream' = Append(stream, DecodeFailure(stream))
          /\ handled' = HandleExceptions(handled, index[video_idx + 1],
                                         Len(stream))
          /\ pc' = AfterHandler
          /\ lost' \in BOOLEAN
          /\ UNCHANGED <<video_idx, saved, outcome>>
       \/ \* next() delivers (frame_idx, frame): _process_frame
          /\ ~Exhausted(stream)
          /\ Len(stream) < cap
          /\ \E f \in Frames(kind, sample_rate, stream) :
                LET res == ProcessFrame(kind, sample_rate, saved,
                                        Len(stream), f)
                IN  /\ stream' = Append(stream, f)
                    /\ saved' = res.saved
                    /\ handled' = IF res.raised
                                  THEN HandleExceptions(handled,
                                           index[video_idx + 1], Len(stream))
                                  ELSE handled
                    /\ pc' = IF res.raised THEN AfterHandler ELSE "frames"
          /\ UNCHANGED <<video_idx, outcome, lost>>
    /\ UNCHANGED <<sampler, dirs, exist_ok, err, prev, opened, start_time,
                   clips>>

\* ---------------------------------------------------------- the clip sampler
\* _process_clip with `>` for `>=`
ProcessClip_strict(cl, st, et) ==
    IF et - st > min_clip_duration THEN Append(cl, <<st, et>>) ELSE cl

\* _process_clip without the test of the duration
ProcessClip_nogate(cl, st, et) == Append(cl, <<st, et>>)

\* VideoClipSampler._process_clip: the requests made of _save_video_clip
ProcessClip(cl, st, et) ==
    IF et - st >= min_clip_duration THEN Append(cl, <<st, et>>) ELSE cl

\* the for loop's body without `start_time = None` after a clip
ClipFrame_noreset(r, st, cl, idx, f) ==
    IF SampleCriteria("VideoClipSampler", r, idx, f)
    THEN [start_time |-> IF st = None THEN f.time ELSE st, clips |-> cl]
    ELSE IF st # None
         THEN [start_time |-> st, clips |-> ProcessClip(cl, st, f.time)]
         ELSE [start_time |-> st, clips |-> cl]

\* the for loop's body taking every true frame as the start of a run
ClipFrame_restart(r, st, cl, idx, f) ==
    IF SampleCriteria("VideoClipSampler", r, idx, f)
    THEN [start_time |-> f.time, clips |-> cl]
    ELSE IF st # None
         THEN [start_time |-> None, clips |-> ProcessClip(cl, st, f.time)]
         ELSE [start_time |-> st, clips |-> cl]

\* the body of the for loop of VideoClipSampler._sample_single_video on a
\* frame whose criterion did not raise
ClipFrame(r, st, cl, idx, f) ==
    IF SampleCriteria("VideoClipSampler", r, idx, f)
    THEN [start_time |-> IF st = None THEN f.time ELSE st, clips |-> cl]
    ELSE IF st # None
         THEN [start_time |-> None, clips |-> ProcessClip(cl, st, f.time)]
         ELSE [start_time |-> st, clips |-> cl]

\* the flush with an end time one step past the last frame
FlushClip_extrapolated(st, s, cl) ==
    IF st # None THEN Append(cl, <<st, Last(s).time + 1>>) ELSE cl

\* "handle remaining frames": the flush after the for loop
FlushClip(st, s, cl) ==
    IF st # None THEN ProcessClip(cl, st, Last(s).time) ELSE cl

\* the transcoder's error is dropped and the loop goes on
AfterTranscoderError_swallow == "frames"

\* where an exception of _save_video_clip goes: _process_clip and the for
\* loop around it do not catch, so it leaves sample()
AfterTranscoderError == "raised"

\* One iteration of the for loop of VideoClipSampler._sample_single_video, or
\* its end.  ffmpeg_ok is the transcoder's exit status being zero:
\* subprocess.run(check=True) raises CalledProcessError otherwise.
ClipStep(cap) ==
    /\ pc = "frames"
    /\ kind = "VideoClipSampler"
    /\ \/ \* the stream is exhausted: flush and return to sample()
          \E ffmpeg_ok \in BOOLEAN :
            LET cl == FlushClip(start_time, stream, clips)
                failed == cl # clips /\ ~ffmpeg_ok
            IN  /\ clips' = cl
                /\ pc' = IF failed THEN AfterTranscoderError ELSE "loop"
                /\ err' = IF failed THEN "CalledProcessError" ELSE err
                /\ video_idx' = IF failed THEN video_idx ELSE video_idx + 1
                /\ outcome' = Ended(outcome, video_idx,
                                    IF failed THEN "failed" ELSE "completed")
                /\ UNCHANGED <<stream, start_time, lost>>
       \/ \* the decoder raises: nothing catches it
          /\ Len(stream) < cap
          /\ stream' = Append(stream, DecodeFailure(stream))
          /\ pc' = "raised"
          /\ err' = "DecodeError"
          /\ outcome' = Ended(outcome, video_idx, "failed")
          /\ lost' \in BOOLEAN
          /\ UNCHANGED <<video_idx, start_time, clips>>
       \/ \* the decoder delivers (video_frame_idx, video_frame)
          /\ Len(stream) < cap
          /\ \E f \in Frames(kind, sample_rate, stream), ffmpeg_ok \in BOOLEAN :
                IF CriteriaRaises(kind, sample_rate, Len(stream), f)
                THEN /\ stream' = Append(stream, f)
                     /\ pc' = "raised"
                     /\ err' = "CriteriaError"
                     /\ outcome' = Ended(outcome, video_idx, "failed")
                     /\ UNCHANGED <<start_time, clips>>
                ELSE LET res == ClipFrame(sample_rate, start_time, clips,
                                          Len(stream), f)
                         failed == res.clips # clips /\ ~ffmpeg_ok
                     IN  /\ stream' = Append(stream, f)
                         /\ clips' = res.clips
                         /\ start_time' = IF failed THEN start_time
                                          ELSE res.start_time
                         /\ pc' = IF failed THEN AfterTranscoderError
                                  ELSE "frames"
                         /\ err' = IF failed THEN "CalledProcessError" ELSE err
                         /\ outcome' = IF failed
                                       THEN Ended(outcome, video_idx, "failed")
                                       ELSE outcome
          /\ UNCHANGED <<video_idx, lost>>
    /\ UNCHANGED <<sampler, dirs, exist_ok, prev, opened, saved, handled>>

\* -------------------------------------------------------- BaseSampler.sample
\* the state of _sample_single_video's locals on entry
FreshVideo ==
    /\ stream' = <<>>
    /\ start_time' = None
    /\ saved' = <<>>
    /\ clips' = <<>>
    /\ handled' = <<>>
    /\ lost' = FALSE

\* the test of the sub directory left out
ShouldProcess_always(ok, sub, ds) == TRUE

\* the test without exist_ok
ShouldProcess_ignore_ok(ok, sub, ds) == sub \notin ds

\* `if exist_ok or not sample_subdir.exists()`
ShouldProcess(ok, sub, ds) == ok \/ sub \notin ds

\* mkdir without exist_ok
Mkdir_strict(ds, sub, ok) ==
    IF sub \in ds
    THEN [dirs |-> ds, raised |-> TRUE]
    ELSE [dirs |-> ds \cup {sub}, raised |-> FALSE]

\* Path.mkdir(parents=True, exist_ok=ok): FileExistsError when the directory
\* exists and ok is false
Mkdir(ds, sub, ok) ==
    IF sub \in ds /\ ~ok
    THEN [dirs |-> ds, raised |-> TRUE]
    ELSE [dirs |-> ds \cup {sub}, raised |-> FALSE]

\* The caller calls sample(video_dataset, output_dir, exist_ok = ok); the call
\* before it, if any, has returned or raised.
Sample ==
    /\ pc \in {"idle", "returned", "raised"}
    /\ \E ok \in BOOLEAN : exist_ok' = ok
    /\ prev' = [status |-> pc, exist_ok |-> exist_ok]
    /\ pc' = "loop"
    /\ video_idx' = 0
    /\ err' = "none"
    /\ opened' = {}
    /\ FreshVideo
    /\ UNCHANGED <<sampler, dirs, outcome>>

\* The for loop reaches a video whose sub directory makes it skip the video.
SkipVideo ==
    /\ pc = "loop"
    /\ video_idx < Len(index)
    /\ ~ShouldProcess(exist_ok, CreateSubdirPath(video_idx), dirs)
    /\ video_idx' = video_idx + 1
    /\ FreshVideo
    /\ UNCHANGED <<sampler, dirs, pc, exist_ok, err, prev, opened, outcome>>

\* the error of av.open is dropped and the for loop goes on
AfterOpenError_swallow == "loop"

\* where an exception of av.open goes: it is raised outside the per-frame
\* try, and sample() does not catch, so it leaves sample()
AfterOpenError == "raised"

\* The for loop reaches a video it processes: mkdir, then
\* _sample_single_video up to its per-frame loop.  av.open (or the lookup of
\* the video stream) succeeds or raises.
ProcessVideo ==
    /\ pc = "loop"
    /\ video_idx < Len(index)
    /\ ShouldProcess(exist_ok, CreateSubdirPath(video_idx), dirs)
    /\ LET m == Mkdir(dirs, CreateSubdirPath(video_idx), exist_ok)
       IN  /\ dirs' = m.dirs
           /\ IF m.raised
              THEN /\ pc' = "raised"
                   /\ err' = "FileExistsError"
                   /\ UNCHANGED <<opened, outcome>>
              ELSE /\ opened' = opened \cup {video_idx}
                   /\ \E open_ok \in BOOLEAN :
                        /\ pc' = IF open_ok THEN "frames" ELSE AfterOpenError
                        /\ err' = IF open_ok THEN err ELSE "OpenError"
                        /\ outcome' = IF open_ok THEN outcome
                                      ELSE Ended(outcome, video_idx, "failed")
    /\ FreshVideo
    /\ UNCHANGED <<sampler, exist_ok, video_idx, prev>>

\* The for loop is over: sample() returns.
Return ==
    /\ pc = "loop"
    /\ video_idx = Len(index)
    /\ pc' = "returned"
    /\ FreshVideo
    /\ UNCHANGED <<sampler, dirs, exist_ok, video_idx, err, prev, opened,
                   outcome>>

\* ------------------------------------------- building dataset and sampler
\* Dataset._dataset_exists: assert self._data_path.exists().  An assert
\* statement raises AssertionError, and is compiled away when the interpreter
\* runs with -O.
DatasetExists(exists, asserts) == asserts => exists

\* Dataset._get_filepaths: the glob under data_dir; nothing matches under a
\* directory that does not exist
GetFilepaths(exists, n) ==
    IF exists THEN [i \in 1..n |-> Path(i)] ELSE <<>>

\* Dataset.__post_init__
BuildDataset ==
    /\ pc = "new"
    /\ \E asserts \in BOOLEAN, n \in 0..BuildVideos :
          IF DatasetExists(root_exists, asserts)
          THEN /\ index' = GetFilepaths(root_exists, n)
               /\ outcome' = [i \in 0..(Len(index') - 1) |-> "none"]
               /\ pc' = "dataset"
               /\ UNCHANGED err
          ELSE /\ pc' = "failed"
               /\ err' = "AssertionError"
               /\ UNCHANGED <<index, outcome>>
    /\ UNCHANGED <<kind, sample_rate, root_exists, result, dirs, exist_ok,
                   video_idx, prev, opened, stream, start_time, saved, clips,
                   handled, lost>>

\* Dataset.__getitem__: self.index[idx], a Python list subscript
GetItem(ix, i) ==
    IF 0 <= i /\ i < Len(ix) THEN <<"item", ix[i + 1]>>
    ELSE IF 0 - Len(ix) <= i /\ i < 0 THEN <<"item", ix[Len(ix) + i + 1]>>
    ELSE <<"IndexError">>

\* Dataset.__len__, __getitem__ and __iter__, called on the built dataset
DatasetRead ==
    /\ pc = "dataset"
    /\ \/ result' = <<"len", Len(index)>>
       \/ \E i \in (0 - (BuildVideos + 1))..BuildVideos :
             result' = GetItem(index, i)
       \/ result' = <<"iter", index>>
    /\ UNCHANGED <<kind, sample_rate, index, root_exists, dirs, pc, exist_ok,
                   video_idx, err, prev, opened, stream, start_time, saved,
                   clips, handled, outcome, lost>>

\* The constructors: the dataclass-generated BaseSampler.__init__ and
\* CustomCriteriaSampler.__init__ store sample_rate as it is given.
BuildSampler ==
    /\ pc = "dataset"
    /\ kind' \in Kinds
    /\ sample_rate' \in (0 - NegRates)..MaxRate
    /\ result' = <<"none">>
    /\ pc' = "idle"
    /\ UNCHANGED <<index, root_exists, dirs, exist_ok, video_idx, err, prev,
                   opened, stream, start_time, saved, clips, handled, outcome,
                   lost>>

\* ------------------------------------------------------------ specifications
\* A sampler of any class, a dataset of n videos, an output directory holding
\* any of the sub directories already.
InitWith(n) ==
    /\ kind \in Kinds
    /\ sample_rate \in 1..MaxRate
    /\ index = [i \in 1..n |-> Path(i)]
    /\ dirs \in SUBSET {CreateSubdirPath(i) : i \in 0..(n - 1)}
    /\ pc = "idle"
    /\ exist_ok = FALSE
    /\ video_idx = 0
    /\ err = "none"
    /\ prev = [status |-> "none", exist_ok |-> FALSE]
    /\ opened = {}
    /\ stream = <<>>
    /\ start_time = None
    /\ saved = <<>>
    /\ clips = <<>>
    /\ handled = <<>>
    /\ root_exists = TRUE
    /\ result = <<"none">>
    /\ outcome = [i \in 0..(n - 1) |-> "none"]
    /\ lost = FALSE

\* one video, long frame streams
Init == InitWith(1)

Next ==
    \/ Sample
    \/ SkipVideo
    \/ ProcessVideo
    \/ Return
    \/ IntervalStep(MaxFrames)
    \/ ClipStep(MaxFrames)

Spec == Init /\ [][Next]_vars

\* several videos, short frame streams
InitRun == InitWith(NumVideos)

NextRun ==
    \/ Sample
    \/ SkipVideo
    \/ ProcessVideo
    \/ Return
    \/ IntervalStep(RunFrames)
    \/ ClipStep(RunFrames)

SpecRun == InitRun /\ [][NextRun]_vars

\* the whole program: a dataset over data_dir, a sampler, calls of sample()
\* into an output directory that starts empty
InitBuild ==
    /\ kind = "none"
    /\ sample_rate = 0
    /\ index = <<>>
    /\ dirs = {}
    /\ pc = "new"
    /\ exist_ok = FALSE
    /\ video_idx = 0
    /\ err = "none"
    /\ prev = [status |-> "none", exist_ok |-> FALSE]
    /\ opened = {}
    /\ stream = <<>>
    /\ start_time = None
    /\ saved = <<>>
    /\ clips = <<>>
    /\ handled = <<>>
    /\ root_exists \in BOOLEAN
    /\ result = <<"none">>
    /\ outcome = <<>>
    /\ lost = FALSE

NextBuild ==
    \/ BuildDataset
    \/ DatasetRead
    \/ BuildSampler
    \/ Sample
    \/ SkipVideo
    \/ ProcessVideo
    \/ Return
    \/ IntervalStep(RunFrames)
    \/ ClipStep(RunFrames)

SpecBuild == InitBuild /\ [][NextBuild]_vars

\* =================================================================== claims
\* how many times x occurs in the sequence q
Count(q, x) == Cardinality({k \in DOMAIN q : q[k] = x})

\* the frame with stream index i (0-based) of the current video
FrameAt(i) == stream[i + 1]

NoFault == \A p \in DOMAIN stream : stream[p].fault = "none"

\* the video the per-video variables belong to, once it has been pulled from
CurrentVideo == IF pc = "loop" THEN video_idx - 1 ELSE video_idx

\* ----- C1
\* C1: a MinimalSampler with sample_rate r >= 1, on a video none of whose
\* frames raises, hands to _save_frame exactly the frames whose index i has
\* i mod r = 0, each once, and no other frame.
C1_FixedRateSelection ==
    (kind = "MinimalSampler" /\ sample_rate >= 1 /\ NoFault) =>
        /\ \A i \in 0..(Len(stream) - 1) :
              Count(saved, i) = IF i % sample_rate = 0 THEN 1 ELSE 0
        /\ \A k \in DOMAIN saved : saved[k] \in 0..(Len(stream) - 1)

\* a finished video of MaxFrames frames sampled at every second frame
C1_Witness ==
    /\ kind = "MinimalSampler"
    /\ sample_rate = 2
    /\ pc = "loop"
    /\ NoFault
    /\ Len(stream) = MaxFrames
    /\ saved = <<0, 2>>

\* ----- C2
\* C2: a CustomCriteriaSampler hands the frame at index i to _save_frame if
\* and only if i mod r = 0 and the predicate holds on the frame; when the
\* predicate holds on no frame, nothing is handed to _save_frame.
C2_PredicateSelection ==
    (kind = "CustomCriteriaSampler" /\ sample_rate >= 1) =>
        /\ \A i \in 0..(Len(stream) - 1) :
              (Count(saved, i) >= 1) <=>
                  (i % sample_rate = 0 /\ FrameAt(i).pred)
        /\ \A k \in DOMAIN saved : saved[k] \in 0..(Len(stream) - 1)
        /\ (\A i \in 0..(Len(stream) - 1) : ~FrameAt(i).pred) => saved = <<>>

\* the predicate holds off the stride (frame 1), fails on it (frame 2), and
\* holds on it (frame 0)
C2_Witness ==
    /\ kind = "CustomCriteriaSampler"
    /\ sample_rate = 2
    /\ Len(stream) >= 3
    /\ FrameAt(0).pred
    /\ FrameAt(1).pred
    /\ ~FrameAt(2).pred
    /\ saved = <<0>>

\* ----- runs of the predicate signal
IsTrue(f) == f.fault = "none" /\ f.pred
IsFalse(f) == f.fault = "none" /\ ~f.pred

\* positions a..b (1-based) of s are a maximal run of predicate-true frames
\* as far as its left end goes
RunFrom(s, a, b) ==
    /\ a <= b
    /\ \A j \in a..b : IsTrue(s[j])
    /\ a = 1 \/ ~IsTrue(s[a - 1])

\* the maximal runs closed by a predicate-false frame
ClosedRuns(s) ==
    {ab \in (1..Len(s)) \X (1..Len(s)) :
        /\ RunFrom(s, ab[1], ab[2])
        /\ ab[2] < Len(s)
        /\ IsFalse(s[ab[2] + 1])}

\* the run lasts long enough, measured from frame a to frame e
Qualifies(s, a, e) == s[e].time - s[a].time >= min_clip_duration

\* the closed runs that last long enough
QualifiedClosed(s) ==
    {ab \in ClosedRuns(s) : Qualifies(s, ab[1], ab[2] + 1)}

\* ----- C3
\* C3: every maximal run [a..b] of predicate-true frames followed by a
\* predicate-false frame b+1 with time(b+1) - time(a) >= min_clip_duration
\* yields exactly one clip request, <<time(a), time(b+1)>>.
C3_ClosedRunClip ==
    kind = "VideoClipSampler" =>
        \A ab \in QualifiedClosed(stream) :
            Count(clips, <<stream[ab[1]].time, stream[ab[2] + 1].time>>) = 1

\* false, true, true, false: one clip from the first true frame to the
\* closing false frame
C3_Witness ==
    /\ kind = "VideoClipSampler"
    /\ Len(stream) = 4
    /\ IsFalse(stream[1])
    /\ IsTrue(stream[2])
    /\ IsTrue(stream[3])
    /\ IsFalse(stream[4])
    /\ stream[3].time > stream[2].time
    /\ clips = << <<stream[2].time, stream[4].time>> >>

\* ----- C4
\* the for loop of the clip sampler is over and the flush has run
ClipStreamEnded ==
    /\ kind = "VideoClipSampler"
    /\ stream # <<>>
    /\ \/ pc = "loop"
       \/ pc = "raised" /\ err = "CalledProcessError" /\ IsTrue(Last(stream))

\* the first frame of the run that ends at position b
RunStart(s, b) == CHOOSE a \in 1..b : RunFrom(s, a, b)

\* C4: at the end of the stream a run that is still open is flushed once, as
\* <<time(first frame of the run), time(last frame delivered)>>, if that
\* lasts min_clip_duration; nothing is flushed otherwise; before the end of
\* the stream nothing is flushed.
C4_EndOfStreamFlush ==
    kind = "VideoClipSampler" =>
        LET n == Len(stream)
            closed == Cardinality(QualifiedClosed(stream))
            flushes == ClipStreamEnded /\ IsTrue(stream[n])
                       /\ Qualifies(stream, RunStart(stream, n), n)
        IN  IF flushes
            THEN /\ Len(clips) = closed + 1
                 /\ Last(clips) = <<stream[RunStart(stream, n)].time,
                                    stream[n].time>>
            ELSE Len(clips) = closed

\* a video that ends in a run: the one clip ends at the last frame's time
C4_Witness ==
    /\ kind = "VideoClipSampler"
    /\ pc = "loop"
    /\ Len(stream) = MaxFrames
    /\ IsFalse(stream[1])
    /\ \A j \in 2..MaxFrames : IsTrue(stream[j])
    /\ clips = << <<stream[2].time, stream[MaxFrames].time>> >>

\* ----- C5
\* C5: every clip request lasts at least min_clip_duration; closing a run
\* that is too short requests nothing, raises nothing and leaves start_time
\* unset, as closing any run does.
C5_MinDurationGate ==
    kind = "VideoClipSampler" =>
        /\ \A k \in DOMAIN clips :
              clips[k][2] - clips[k][1] >= min_clip_duration
        /\ (stream # <<>> /\ IsFalse(Last(stream)) /\ pc # "raised") =>
              start_time = None
        /\ \A ab \in ClosedRuns(stream) \ QualifiedClosed(stream) :
              /\ Count(clips, <<stream[ab[1]].time,
                                stream[ab[2] + 1].time>>) = 0
              /\ ab[2] + 1 = Len(stream) => pc # "raised"

\* a run too short is dropped and the run after it is still detected
C5_Witness ==
    /\ kind = "VideoClipSampler"
    /\ Len(stream) = 4
    /\ IsTrue(stream[1])
    /\ IsFalse(stream[2])
    /\ ~Qualifies(stream, 1, 2)
    /\ IsTrue(stream[3])
    /\ IsFalse(stream[4])
    /\ clips = << <<stream[3].time, stream[4].time>> >>
    /\ start_time = None

\* ----- C6
\* C6: the clip intervals of one video are time-ordered and do not overlap:
\* s1 < e1 <= s2 < e2 for successive intervals <<s1, e1>>, <<s2, e2>>.
C6_IntervalOrdering ==
    kind = "VideoClipSampler" =>
        /\ \A k \in DOMAIN clips : clips[k][1] < clips[k][2]
        /\ \A k \in 1..(Len(clips) - 1) : clips[k][2] <= clips[k + 1][1]

\* two clips from one video
C6_Witness ==
    /\ kind = "VideoClipSampler"
    /\ Len(clips) = 2
    /\ clips[1][2] <= clips[2][1]

\* ----- C7
\* the frame at index i is one the sampler's criterion selects
Selected(i) ==
    /\ FrameAt(i).fault \notin {"decode", "criteria"}
    /\ i % sample_rate = 0
    /\ kind = "CustomCriteriaSampler" => FrameAt(i).pred

C8_ClipErrorIsolation ==
    (/\ kind = "VideoClipSampler"
     /\ stream # <<>>
     /\ Last(stream).fault \in {"decode", "criteria"}) =>
        /\ pc = "frames"
        /\ Count(handled, <<index[video_idx + 1], Len(stream) - 1>>) = 1

\* ----- C9
\* the sub directories of all the videos of the dataset
AllSubdirs == {CreateSubdirPath(i) : i \in 0..(Len(index) - 1)}

\* this call of sample() has exist_ok false and follows a call with exist_ok
\* false that returned
SecondRun ==
    /\ prev.status = "returned"
    /\ ~prev.exist_ok
    /\ ~exist_ok

\* C9: a call sample(exist_ok=False) that follows a completed call
\* sample(exist_ok=False) skips every video: no video is opened, no frame is
\* pulled, nothing is handed to _save_frame or _save_video_clip, nothing
\* raises and the sub directories are those the first call left.
C9_ResumeIdempotence ==
    SecondRun =>
        /\ opened = {}
        /\ pc \in {"loop", "returned"}
        /\ err = "none"
        /\ stream = <<>>
        /\ saved = <<>>
        /\ clips = <<>>
        /\ handled = <<>>
        /\ dirs = AllSubdirs

\* the second call has returned
C9_Witness ==
    /\ SecondRun
    /\ pc = "returned"
    /\ video_idx = Len(index)
    /\ Len(index) >= 2
    /\ opened = {}

\* ----- C10
\* C10: a call sample(exist_ok=True) skips no video, whatever sub directories
\* exist: every video the loop has passed was handed to
\* _sample_single_video, mkdir never raises FileExistsError, and when the
\* call returns every video of the dataset was processed.
C10_ReprocessAll ==
    (exist_ok /\ pc # "idle") =>
        /\ err # "FileExistsError"
        /\ opened = {i \in 0..(Len(index) - 1) :
                        \/ i < video_idx
                        \/ i = video_idx /\ pc \in {"frames", "raised"}}
        /\ opened \subseteq dirs
        /\ pc = "returned" => opened = 0..(Len(index) - 1)

\* every sub directory existed when the call began, and the call processed
\* every video
C10_Witness ==
    /\ exist_ok
    /\ prev.status = "returned"
    /\ pc = "returned"
    /\ Len(index) >= 2
    /\ opened = 0..(Len(index) - 1)

\* ----- C11
\* the for loop stands before a video whose sub directory exists
AtExistingSubdir ==
    /\ pc = "loop"
    /\ video_idx < Len(index)
    /\ CreateSubdirPath(video_idx) \in dirs

\* the step skips the video: it is not opened and the loop moves on
SkipsVideo ==
    /\ pc' = "loop"
    /\ video_idx' = video_idx + 1
    /\ opened' = opened
    /\ dirs' = dirs

\* the step hands the video to _sample_single_video
OpensVideo ==
    /\ pc' \in {"frames", "raised"}
    /\ video_idx' = video_idx
    /\ opened' = opened \cup {video_idx}

\* C11 as stated: with exist_ok true a video whose sub directory exists is
\* skipped: it is not opened and nothing is written for it.
C11_ExistOkSkips ==
    [][(AtExistingSubdir /\ exist_ok) => SkipsVideo]_vars

\* C11, amended: a video whose sub directory exists is skipped when exist_ok
\* is false, and is handed to _sample_single_video when exist_ok is true.
C11_ExistingSkippedUnlessExistOk ==
    [][AtExistingSubdir =>
          IF exist_ok THEN OpensVideo ELSE SkipsVideo]_vars

\* a call with exist_ok false has skipped a video whose sub directory exists
C11_Witness ==
    /\ ~exist_ok
    /\ pc = "loop"
    /\ video_idx >= 1
    /\ (video_idx - 1) \notin opened
    /\ CreateSubdirPath(video_idx - 1) \in dirs

\* ----- C12
\* C12: no sampler object with sample_rate <= 0 ever exists: construction
\* with such a rate fails, so whenever a sampler has been built its
\* sample_rate is at least 1.
C12_PositiveRate ==
    kind \in Kinds => sample_rate >= 1

\* ----- C13
\* C13: when opening a video fails, the error handler is not invoked, no
\* frame of the video is evaluated, the error leaves sample(), and no later
\* video of the dataset is processed by that call.
C13_OpenFailureFatal ==
    err = "OpenError" =>
        /\ pc = "raised"
        /\ handled = <<>>
        /\ stream = <<>> /\ saved = <<>> /\ clips = <<>>
        /\ video_idx \in opened
        /\ \A v \in opened : v <= video_idx

C13_Witness ==
    /\ err = "OpenError"
    /\ pc = "raised"
    /\ video_idx = 0
    /\ Len(index) >= 2
    /\ opened = {0}

\* ----- C14
\* C14: when the transcoder exits with a failure, the clip was requested
\* once (no retry), the error handler is not invoked, the error leaves
\* sample(), and no later video is processed by that call.
C14_TranscoderFailureFatal ==
    err = "CalledProcessError" =>
        /\ pc = "raised"
        /\ kind = "VideoClipSampler"
        /\ handled = <<>>
        /\ clips # <<>>
        /\ Count(clips, Last(clips)) = 1
        /\ video_idx \in opened
        /\ \A v \in opened : v <= video_idx

C14_Witness ==
    /\ err = "CalledProcessError"
    /\ pc = "raised"
    /\ video_idx = 0
    /\ Len(index) >= 2
    /\ opened = {0}
    /\ Len(clips) = 1
    /\ IsFalse(Last(stream))

\* ----- C15
\* the call of sample() is inside its for loop before and after the step
InLoop == pc \in {"loop", "frames"}

\* C15: sample() visits the videos in dataset order, one at a time: video_idx
\* only moves from k to k+1, and only when video k has been skipped or its
\* frame loop is over; the sub directory created or reused for the video at
\* position k is output_dir/k; frames are pulled only from the opened
\* video at video_idx; and a video is entered with no frame pulled and no
\* start_time recorded.
C15_SequentialIndexKeyed ==
    [][InLoop =>
         /\ video_idx' \in {video_idx, video_idx + 1}
         /\ video_idx' = video_idx + 1 => pc' = "loop" /\ opened' = opened
         /\ dirs' \in {dirs, dirs \cup {video_idx}}
         /\ opened' # opened =>
               /\ pc = "loop"
               /\ opened' = opened \cup {video_idx}
               /\ video_idx \in dirs'
               /\ \A v \in opened : v < video_idx
         /\ (pc = "loop" /\ pc' = "frames") =>
               stream' = <<>> /\ start_time' = None /\ clips' = <<>>
         /\ stream' # stream /\ stream' # <<>> =>
               /\ pc = "frames"
               /\ video_idx \in opened
               /\ video_idx' = video_idx]_vars

\* the second video has been entered after the first one was processed to
\* the end
C15_Witness ==
    /\ pc = "frames"
    /\ video_idx = 1
    /\ opened = {0, 1}
    /\ {0, 1} \subseteq dirs
    /\ outcome[0] = "completed"
    /\ kind = "VideoClipSampler"
    /\ stream = <<>>
    /\ start_time = None

\* ----- C17
\* the number of maximal runs of predicate-true frames of s, counted at
\* their last frame
MaximalRuns(s) ==
    Cardinality({b \in 1..Len(s) :
        IsTrue(s[b]) /\ (b = Len(s) \/ ~IsTrue(s[b + 1]))})

\* the clip sampler's for loop takes a frame whose criterion did not raise
ClipTakesFrame ==
    /\ kind = "VideoClipSampler"
    /\ pc = "frames"
    /\ Len(stream') = Len(stream) + 1
    /\ Last(stream').fault = "none"

\* C17: a video starts with no start_time recorded; a predicate-true frame
\* while a run is open leaves start_time unchanged and requests no clip; a
\* predicate-false frame while no run is open leaves start_time unset and
\* requests no clip; and the number of clip requests of a video never
\* exceeds the number of maximal predicate-true runs in it.
C17_ClipNoOpSteps ==
    [][/\ (kind = "VideoClipSampler" /\ pc' = "frames" /\ stream' = <<>>) =>
              start_time' = None
       /\ ClipTakesFrame =>
            /\ (Last(stream').pred /\ start_time # None) =>
                  start_time' = start_time /\ clips' = clips
            /\ (~Last(stream').pred /\ start_time = None) =>
                  start_time' = None /\ clips' = clips
       /\ kind = "VideoClipSampler" =>
            Len(clips') <= MaximalRuns(stream')]_vars

\* true, true, false, false: the second frame came while the run was open,
\* the fourth while none was
C17_Witness ==
    /\ kind = "VideoClipSampler"
    /\ pc = "frames"
    /\ Len(stream) = 4
    /\ IsTrue(stream[1])
    /\ IsTrue(stream[2])
    /\ IsFalse(stream[3])
    /\ IsFalse(stream[4])
    /\ stream[2].time > stream[1].time
    /\ clips = << <<stream[1].time, stream[3].time>> >>
    /\ start_time = None

\* ----- C18
\* the locals start_time and clips of a clip sampler with sample_rate r after
\* the first n frames of s
RECURSIVE Replay(_, _, _)
Replay(r, s, n) ==
    IF n = 0
    THEN [start_time |-> None, clips |-> <<>>]
    ELSE LET p == Replay(r, s, n - 1)
         IN  IF s[n].fault # "none"
             THEN p
             ELSE ClipFrame(r, p.start_time, p.clips, n - 1, s[n])

\* the clip requests a clip sampler with sample_rate r makes on the frames
\* pulled so far from the current video
ClipsOfRate(r) ==
    LET p == Replay(r, stream, Len(stream))
    IN  IF ClipStreamEnded
        THEN FlushClip(p.start_time, stream, p.clips)
        ELSE p.clips

\* C18: the clip sampler's criterion is the predicate alone on every frame,
\* whatever the frame's index and sample_rate; a clip sampler with any other
\* sample_rate requests the same sequence of clips on the same frames.
C18_ClipIgnoresStride ==
    kind = "VideoClipSampler" =>
        /\ \A r \in 1..MaxRate : clips = ClipsOfRate(r)
        /\ \A i \in DOMAIN stream : \A r \in 1..MaxRate :
              stream[i].fault = "none" =>
                SampleCriteria(kind, r, i - 1, stream[i]) = stream[i].pred

\* sample_rate 2 and a run that starts and ends at odd frame indices
C18_Witness ==
    /\ kind = "VideoClipSampler"
    /\ sample_rate = 2
    /\ Len(stream) = 4
    /\ IsFalse(stream[1])
    /\ IsTrue(stream[2])
    /\ IsFalse(stream[3])
    /\ IsTrue(stream[4])
    /\ clips = << <<stream[2].time, stream[3].time>> >>

\* ----- C19
\* C19: the per-frame loop of the interval samplers ends only when the video
\* has no frame left, never earlier because of an error raised while pulling
\* a frame, evaluating the criterion or persisting.
C19_EndsOnlyOnExhaustion ==
    (kind \in IntervalKinds /\ pc = "loop") => ~lost

\* ----- C20
\* this call of sample() and the one before it, which raised, were both made
\* with exist_ok false
ResumesAfterFailure ==
    /\ ~exist_ok
    /\ prev = [status |-> "raised", exist_ok |-> FALSE]

\* C20: with exist_ok false a video is skipped only if an earlier call of
\* sample() processed it to the end of its frame stream; a video whose
\* processing stopped on a fatal error is processed again by the next call,
\* not skipped.
C20_SkipsOnlyCompleted ==
    [][(ResumesAfterFailure /\ pc = "loop" /\ video_idx < Len(index)
          /\ SkipsVideo) =>
            outcome[video_idx] = "completed"]_vars

\* ----- C16
\* C16: when data_dir does not exist, constructing the dataset fails with a
\* not-found error and no dataset object results.
C16_MissingRootFails ==
    (~root_exists /\ pc # "new") => (pc = "failed" /\ err = "NotFoundError")
====
